---- MODULE Spec2Model ----
(***************************************************************************)
(* Zendesk Auto-QA service (src/main.py): the /summary and /evaluate       *)
(* handlers, the Zendesk fetch, the audit-log parser, the two AI wrappers  *)
(* and the /analytics/errors scan, as a state machine over a Redis cache.  *)
(*                                                                         *)
(* Representation.  A Python str that the code slices or concatenates      *)
(* (ticket ids, cache keys, message texts) is a sequence of one-character  *)
(* strings; a str the code only passes around is a TLA+ string.  A dict is *)
(* a function from field names to values.  A JSON scalar whose Python type *)
(* varies (an assignee id) is a tagged tuple <<"null">>, <<"int", n>> or   *)
(* <<"str", chars>>.  A JSON text is a record [t, kv]: t = "obj" with the  *)
(* key/value pairs in order, "arr" for a non-object value, "bad" for text  *)
(* that is not JSON, "nil" for no text at all (Redis GET of a missing key).*)
(* The outcome of a handler is what the function does: it returns a dict   *)
(* ("ok"), raises HTTPException ("http404", "http500") or lets another     *)
(* exception escape ("fault", answered 500 by the framework).              *)
(***************************************************************************)
EXTENDS Integers, Sequences, FiniteSets, TLC

\* ------------------------------------------------------------------ bounds
MaxRequests == 2
MaxIdLen == 2

\* ------------------------------------------------------- Python primitives
JNull == <<"null">>
JInt(n) == <<"int", n>>
JStr(s) == <<"str", s>>

\* Python None where the code reads a str-valued field with dict.get
PyNone == "<None>"

\* truth value of a tagged JSON scalar: None, 0 and "" are falsy
Truthy(v) == /\ v # JNull
             /\ v # JInt(0)
             /\ v # JStr(<<>>)

\* truth value of a str-valued field
TruthyStr(s) == s # PyNone /\ s # ""

\* a or b
PyOr(a, b) == IF Truthy(a) THEN a ELSE b

\* d.get(k, def)
Get(d, k, def) == IF k \in DOMAIN d THEN d[k] ELSE def

\* d.update(u), {**d, **u}
Update(d, u) == [k \in (DOMAIN d) \cup (DOMAIN u) |-> IF k \in DOMAIN u THEN u[k] ELSE d[k]]

Digit(c) == CASE c = "0" -> 0 [] c = "1" -> 1 [] c = "2" -> 2 [] c = "3" -> 3
              [] c = "4" -> 4 [] c = "5" -> 5 [] c = "6" -> 6 [] c = "7" -> 7
              [] c = "8" -> 8 [] c = "9" -> 9 [] OTHER -> -1

RECURSIVE DigitsValue(_)
DigitsValue(s) == IF s = <<>> THEN 0
                  ELSE 10 * DigitsValue(SubSeq(s, 1, Len(s) - 1)) + Digit(s[Len(s)])

\* int(v): [ok, n]; ok = FALSE stands for ValueError / TypeError
PyInt(v) == IF v[1] = "int" THEN [ok |-> TRUE, n |-> v[2]]
            ELSE IF v[1] = "str" /\ v[2] # <<>> /\ \A i \in DOMAIN v[2] : Digit(v[2][i]) >= 0
                 THEN [ok |-> TRUE, n |-> DigitsValue(v[2])]
                 ELSE [ok |-> FALSE, n |-> 0]

Whitespace == {" ", "\n", "\t"}

\* s.strip()
RECURSIVE Strip(_)
Strip(s) == IF s = <<>> THEN s
            ELSE IF s[1] \in Whitespace THEN Strip(Tail(s))
            ELSE IF s[Len(s)] \in Whitespace THEN Strip(SubSeq(s, 1, Len(s) - 1))
            ELSE s

\* x in msg (substring)
Contains(msg, x) == \E i \in 0..(Len(msg) - Len(x)) : SubSeq(msg, i + 1, i + Len(x)) = x

\* key.startswith(prefix), the glob "qa:*"
StartsWith(s, p) == Len(s) >= Len(p) /\ SubSeq(s, 1, Len(p)) = p

\* ------------------------------------------------------------- JSON texts
FieldOrder == <<"ticket_id", "assignee_id", "agent_name", "issue", "action", "result",
                "language", "tov_score", "solution_score", "errors", "next_action",
                "analyzed_at", "status">>

NoText == [t |-> "nil", kv |-> <<>>]

\* variant: the dump leaves agent_name out
json_dumps_lossy(d) ==
    LET ks == SelectSeq(FieldOrder, LAMBDA k : k \in DOMAIN d /\ k # "agent_name")
    IN [t |-> "obj", kv |-> [i \in DOMAIN ks |-> <<ks[i], d[ks[i]]>>]]

\* json.dumps(d) of a dict
json_dumps(d) ==
    LET ks == SelectSeq(FieldOrder, LAMBDA k : k \in DOMAIN d)
    IN [t |-> "obj", kv |-> [i \in DOMAIN ks |-> <<ks[i], d[ks[i]]>>]]

PairsToDict(kv) ==
    [k \in {kv[i][1] : i \in DOMAIN kv} |->
        LET last == CHOOSE i \in DOMAIN kv :
                        /\ kv[i][1] = k
                        /\ \A j \in DOMAIN kv : kv[j][1] = k => j <= i
        IN kv[last][2]]

NoDict == [none |-> TRUE]

\* json.loads(text): kind "dict" with the dict, "other" for any other JSON
\* value, "raise" when the text is not JSON (or is None)
json_loads(text) ==
    CASE text.t = "obj" -> [kind |-> "dict", d |-> PairsToDict(text.kv)]
      [] text.t = "arr" -> [kind |-> "other", d |-> NoDict]
      [] OTHER -> [kind |-> "raise", d |-> NoDict]

\* ------------------------------------------------- parse_ticket_data (192-270)
Min(S) == CHOOSE x \in S : \A y \in S : x <= y

\* one pass of the body of "for audit in reversed(audits)": the assignee the
\* audit yields, JNull when it yields none
AuditAssignee(audit) ==
    IF Truthy(Get(audit, "assignee", JNull)) THEN audit["assignee"]
    ELSE IF Truthy(Get(audit, "assignee_id", JNull)) THEN audit["assignee_id"]
    ELSE LET evs == Get(audit, "events", <<>>)
             hits == {i \in DOMAIN evs :
                        /\ Get(evs[i], "field_name", PyNone) \in {"assignee", "assignee_id"}
                        /\ Truthy(Get(evs[i], "value", JNull))}
         IN IF hits = {} THEN JNull ELSE evs[Min(hits)]["value"]

RECURSIVE ScanAudits(_, _, _)
ScanAudits(audits, i, assignee) ==
    IF i = 0 THEN assignee
    ELSE LET found == AuditAssignee(audits[i])
         IN IF Truthy(found) THEN found ELSE ScanAudits(audits, i - 1, assignee)

\* 1. the agent's id
ResolveAssignee(ticket, audits) ==
    LET assignee == PyOr(Get(ticket, "assignee", JNull), Get(ticket, "assignee_id", JNull))
    IN IF Truthy(assignee) THEN assignee ELSE ScanAudits(audits, Len(audits), assignee)

\* 2. the agent's name
ResolveAgentName(assignee, users) ==
    IF Truthy(assignee) /\ PyInt(assignee).ok
    THEN LET hits == {i \in DOMAIN users : users[i].id = PyInt(assignee).n}
         IN IF hits = {} THEN "Unknown Agent" ELSE users[Min(hits)].name
    ELSE "Unknown Agent"

\* user_map = {u["id"]: u["name"] for u in users}: the last entry of an id wins
UserMapHas(users, id) == \E i \in DOMAIN users : users[i].id = id

UserMapGet(users, id) ==
    LET last == CHOOSE i \in DOMAIN users :
                    /\ users[i].id = id
                    /\ \A j \in DOMAIN users : users[j].id = id => j <= i
    IN users[last].name

IGNORE == << <<"M","u","t","a","x","a","s","s","i","s","n","i"," ","c","h","a","q","i","r","i","s","h">>,
             <<"M","a","i","n"," ","M","e","n","u">>,
             <<"S","t","a","r","t"," ","C","h","a","t">>,
             <<"B","o","t"," ","s","t","a","r","t","e","d">> >>

\* the text of a history item after "if msg is None" and strip()
HistoryText(h) ==
    LET m == Get(h, "message", <<>>)
    IN Strip(IF m = JNull THEN <<>> ELSE m)

\* the history item passes lines 242-247
HistoryKept(h) ==
    /\ Get(h, "type", PyNone) = "ChatMessage"
    /\ HistoryText(h) # <<>>
    /\ ~ \E i \in DOMAIN IGNORE : Contains(HistoryText(h), IGNORE[i])

\* f"{prefix}: {msg}" of a kept history item, as the pieces of the string
HistoryLine(h, users) ==
    LET role == Get(h, "actor_type", PyNone)
        inline == IF TruthyStr(Get(h, "name", PyNone)) THEN h["name"]
                  ELSE IF TruthyStr(Get(h, "actor_name", PyNone)) THEN h["actor_name"]
                  ELSE "User"
        d_name == IF Get(h, "author_id", 0) # 0 /\ UserMapHas(users, Get(h, "author_id", 0))
                  THEN UserMapGet(users, h["author_id"])
                  ELSE inline
    IN <<(IF role = "end-user" THEN "CLIENT" ELSE "AGENT"), " (", d_name, ")", ": ">>
       \o HistoryText(h)

\* variant: only the nested history is read
EventHistory_nested_only(ev) ==
    Get(Get(ev, "value", [history |-> <<>>]), "history", <<>>)

\* history of a ChatStartedEvent: value.history, else the event's own history
EventHistory(ev) ==
    LET nested == Get(Get(ev, "value", [history |-> <<>>]), "history", <<>>)
    IN IF nested = <<>> /\ "history" \in DOMAIN ev THEN ev["history"] ELSE nested

RECURSIVE HistoryLines(_, _)
HistoryLines(history, users) ==
    IF history = <<>> THEN <<>>
    ELSE (IF HistoryKept(Head(history)) THEN <<HistoryLine(Head(history), users)>> ELSE <<>>)
         \o HistoryLines(Tail(history), users)

\* plain_body or body; None and "" are both falsy, so both are <<>> here
CommentBody(ev) ==
    IF Get(ev, "plain_body", <<>>) # <<>> THEN ev["plain_body"] ELSE Get(ev, "body", <<>>)

\* f"{author_name}: {body}"
CommentLine(ev, users) ==
    LET author_name == IF "author_id" \in DOMAIN ev /\ UserMapHas(users, ev["author_id"])
                       THEN UserMapGet(users, ev["author_id"]) ELSE "AGENT"
    IN <<author_name, ": ">> \o CommentBody(ev)

\* the messages one event appends
EventLines(ev, users) ==
    LET event_type == Get(ev, "type", PyNone)
    IN IF event_type = "ChatStartedEvent" THEN HistoryLines(EventHistory(ev), users)
       ELSE IF event_type = "Comment" /\ Get(ev, "public", FALSE) /\ CommentBody(ev) # <<>>
            THEN <<CommentLine(ev, users)>>
            ELSE <<>>

RECURSIVE EventsLines(_, _)
EventsLines(events, users) ==
    IF events = <<>> THEN <<>>
    ELSE EventLines(Head(events), users) \o EventsLines(Tail(events), users)

\* 3. the list "messages" after the loop over audits and events
RECURSIVE Messages(_, _)
Messages(audits, users) ==
    IF audits = <<>> THEN <<>>
    ELSE EventsLines(Get(Head(audits), "events", <<>>), users) \o Messages(Tail(audits), users)

\* "\n".join(messages)
RECURSIVE Join(_)
Join(messages) ==
    IF messages = <<>> THEN <<>>
    ELSE IF Len(messages) = 1 THEN messages[1]
    ELSE messages[1] \o <<"\n">> \o Join(Tail(messages))

parse_ticket_data(data) ==
    LET assignee == ResolveAssignee(data.ticket, data.audits)
    IN [dialogue |-> Join(Messages(data.audits, data.users)),
        agent_name |-> ResolveAgentName(assignee, data.users),
        assignee |-> assignee]

\* ------------------------------------------ what Zendesk and Gemini answer
\* The collaborators are outside the program; their answers are drawn from
\* these samples.  A sample is named by a string and looked up when used.
Users == << [id |-> 42, name |-> "Alice"], [id |-> 7, name |-> "Bob"] >>

TicketIds == { <<"7">> }

\* body of GET /api/v2/tickets/{id}.json?include=users
TicketBody(name) ==
    IF name = "T_assigned"
    THEN [ticket |-> [id |-> 1, assignee_id |-> JInt(42)], users |-> Users]
    ELSE [ticket |-> [id |-> 1, assignee_id |-> JNull], users |-> Users]

TicketBodies == {"T_open"}

ChatAudit ==
    [id |-> 1,
     events |-> << [type |-> "Change", field_name |-> "assignee_id", value |-> JStr(<<"7">>)],
                   [type |-> "ChatStartedEvent",
                    value |-> [history |->
                      << [type |-> "ChatMessage", actor_type |-> "end-user", name |-> "Eve",
                          message |-> <<"h", "i">>],
                         [type |-> "ChatMessage", actor_type |-> "agent", author_id |-> 42,
                          message |-> <<" ", "o", "k", " ">>],
                         [type |-> "ChatMessage", actor_type |-> "agent",
                          message |-> <<"M","a","i","n"," ","M","e","n","u">>] >>]] >>]

QuietAudit ==
    [id |-> 2,
     events |-> << [type |-> "Comment", public |-> FALSE, body |-> <<"n", "o", "t", "e">>,
                    author_id |-> 42],
                   [type |-> "ChatStartedEvent",
                    history |-> << [type |-> "ChatMessage", actor_type |-> "end-user",
                                    message |-> <<" ", " ">>],
                                   [type |-> "ChatJoin", actor_type |-> "agent"] >>] >>]

\* body of GET /api/v2/tickets/{id}/audits.json
AuditsBody(name) ==
    IF name = "A_chat" THEN [audits |-> <<ChatAudit>>] ELSE [audits |-> <<QuietAudit>>]

AuditBodies == {"A_chat", "A_quiet"}

\* an HTTP exchange: a response with a status and a body (a sample name, or
\* "bad" for a body that is not JSON), or a transport error / timeout
Response(status, body) == [kind |-> "resp", status |-> status, body |-> body]

TransportError == [kind |-> "error", status |-> 0, body |-> "-"]

NoExchange == [kind |-> "none", status |-> 0, body |-> "-"]

\* what the ticket request can meet; zdUp = FALSE is an unreachable platform
TicketExchanges(zdUp) ==
    IF zdUp
    THEN {Response(200, b) : b \in TicketBodies}
         \cup {Response(404, "-"), Response(503, "-"), TransportError}
    ELSE {TransportError}

AuditExchanges(zdUp) ==
    IF zdUp
    THEN {Response(200, b) : b \in AuditBodies}
         \cup {Response(500, "-"), TransportError}
    ELSE {TransportError}

\* ------------------------------------------------ get_zendesk_data (149-190)
\* the body of the first try block (160-166): the exception it raises, "none"
\* when it reaches the end
TicketTry(x) ==
    IF x.kind = "error" THEN "ConnectionError"
    ELSE IF x.status = 404 THEN "HTTPException404"
    ELSE IF x.status # 200 THEN "HTTPException500"
    ELSE IF x.body = "bad" THEN "JSONDecodeError"
    ELSE "none"

\* variant: a failed ticket request degrades to a default body, the way the
\* audits request degrades
FetchTicketData_degrading(x) ==
    IF TicketTry(x) # "none"
    THEN [raised |-> FALSE, status |-> 200, detail |-> "-", body |-> "T_open"]
    ELSE [raised |-> FALSE, status |-> 200, detail |-> "-", body |-> x.body]

\* the first request with its except clause (159-169): "except Exception"
\* catches whatever the try block raised, HTTPException included
FetchTicketData(x) ==
    IF TicketTry(x) # "none"
    THEN [raised |-> TRUE, status |-> 500, detail |-> "Network Error", body |-> "-"]
    ELSE [raised |-> FALSE, status |-> 200, detail |-> "-", body |-> x.body]

\* the second request (174-183): audits_list
FetchAudits(x) ==
    IF x.kind = "error" THEN <<>>
    ELSE IF x.status # 200 THEN <<>>
    ELSE IF x.body = "bad" THEN <<>>
    ELSE Get(AuditsBody(x.body), "audits", <<>>)

\* the returned dict (186-190)
ZendeskData(ticketBody, audits_list) ==
    [ticket |-> Get(TicketBody(ticketBody), "ticket", [id |-> 0]),
     users |-> Get(TicketBody(ticketBody), "users", <<>>),
     audits |-> audits_list]

\* ----------------------------------------------------------- the AI wrappers
Features == {"summary", "evaluate"}

AiSamples == {"throw", "garbage", "good", "partial", "array"}

\* answers of the evaluation prompt with other scores: the prompt asks for
\* scores of 0 to 5 (349-350) and nothing bounds what the answer holds
ScoreSamples == {"wild", "low", "rude"}

\* the scores and the errors of a well-shaped evaluation answer
Scores(name) ==
    CASE name = "wild" -> [tov |-> 9, sol |-> 0 - 1, errors |-> <<>>]
      [] name = "low" -> [tov |-> 3, sol |-> 5, errors |-> <<>>]
      [] name = "rude" -> [tov |-> 5, sol |-> 2, errors |-> <<"rude">>]
      [] OTHER -> [tov |-> 5, sol |-> 5, errors |-> <<>>]

\* generate_content(...): it raises, or resp.text is the text.  The schema
\* handed to Gemini is the response model, so a well-shaped answer carries
\* its own ticket_id and status
AiAnswer(feature, name) ==
    CASE name = "throw" ->
           [raises |-> TRUE, err |-> "503 UNAVAILABLE", text |-> NoText]
      [] name = "garbage" ->
           [raises |-> FALSE, err |-> "-", text |-> [t |-> "bad", kv |-> <<>>]]
      [] name = "array" ->
           [raises |-> FALSE, err |-> "-", text |-> [t |-> "arr", kv |-> <<>>]]
      [] name = "partial" ->
           [raises |-> FALSE, err |-> "-",
            text |-> [t |-> "obj",
                      kv |-> IF feature = "summary" THEN << <<"issue", "Login fails">> >>
                             ELSE << <<"language", "ru">> >>]]
      [] OTHER ->
           [raises |-> FALSE, err |-> "-",
            text |-> [t |-> "obj",
                      kv |-> IF feature = "summary"
                             THEN << <<"ticket_id", <<"9">> >>, <<"issue", "Login fails">>,
                                     <<"action", "Reset password">>, <<"result", "Solved">>,
                                     <<"status", "final">> >>
                             ELSE << <<"ticket_id", <<"9">> >>, <<"language", "ru">>,
                                     <<"tov_score", Scores(name).tov>>,
                                     <<"solution_score", Scores(name).sol>>,
                                     <<"errors", Scores(name).errors>>,
                                     <<"next_action", "Keep going">>,
                                     <<"status", "final">> >>]]

\* the answers drawn for a feature's prompt
SamplesOf(feature) ==
    IF feature = "summary" THEN AiSamples ELSE AiSamples \cup {"wild"}

\* the value a wrapper returns: a dict, or some other JSON value
Returned(d) == [kind |-> "dict", d |-> d]

\* the except branch of run_summary_ai (339-341)
SummaryFallback(ticket_id, e) ==
    [ticket_id |-> ticket_id, issue |-> "Error", action |-> "-", result |-> e]

\* run_summary_ai (320-341); str(e) of a JSONDecodeError is "Expecting value"
run_summary_ai(ticket_id, dialogue, answer) ==
    IF answer.raises THEN Returned(SummaryFallback(ticket_id, answer.err))
    ELSE LET v == json_loads(answer.text)
         IN IF v.kind = "raise" THEN Returned(SummaryFallback(ticket_id, "Expecting value"))
            ELSE v

\* variant: the fallback without the error text
EvaluationFallback_silent(ticket_id, e, now) ==
    [ticket_id |-> ticket_id, language |-> "err", tov_score |-> 0, solution_score |-> 0,
     errors |-> <<>>, next_action |-> "-", analyzed_at |-> now]

\* the except branch of run_evaluation_ai (365-370)
EvaluationFallback(ticket_id, e, now) ==
    [ticket_id |-> ticket_id, language |-> "err", tov_score |-> 0, solution_score |-> 0,
     errors |-> <<e>>, next_action |-> "-", analyzed_at |-> now]

\* run_evaluation_ai, the second definition, which is the one bound at import
\* (343-370); res["analyzed_at"] = ... raises TypeError inside the try when
\* res is not a dict
run_evaluation_ai(ticket_id, dialogue, answer, now) ==
    IF answer.raises THEN Returned(EvaluationFallback(ticket_id, answer.err, now))
    ELSE LET v == json_loads(answer.text)
         IN IF v.kind = "raise"
            THEN Returned(EvaluationFallback(ticket_id, "Expecting value", now))
            ELSE IF v.kind # "dict"
            THEN Returned(EvaluationFallback(ticket_id, "TypeError", now))
            ELSE Returned(Update(v.d, [analyzed_at |-> now]))

\* the fields without a default of TicketSummary (74-83) and of
\* TicketEvaluation (99-111)
RequiredFields(feature) ==
    IF feature = "summary" THEN {"ticket_id", "issue", "action", "result"}
    ELSE {"ticket_id", "language", "tov_score", "solution_score", "errors", "next_action"}

\* ------------------------------------------------------- handler fragments
S_summary == <<"s", "u", "m", "m", "a", "r", "y", ":">>

S_qa == <<"q", "a", ":">>

\* f"summary:{tid}"
summary_key(tid) == S_summary \o tid

\* f"qa:{tid}"
qa_key(tid) == S_qa \o tid

\* variant: the summary handler uses the evaluation key
KeyOf_shared(feature, tid) == qa_key(tid)

\* the key a feature's handler reads and writes
KeyOf(feature, tid) == IF feature = "summary" THEN summary_key(tid) ELSE qa_key(tid)

Keys == {summary_key(t) : t \in TicketIds} \cup {qa_key(t) : t \in TicketIds}

\* variant: the placeholder without its status tag
EmptySummary_untagged(tid, aid, agent) ==
    [ticket_id |-> tid, assignee_id |-> aid, agent_name |-> agent, issue |-> "Net dialoga",
     action |-> "-", result |-> "-"]

\* the record of line 385 (the issue text is the Cyrillic literal, transliterated)
EmptySummary(tid, aid, agent) ==
    [ticket_id |-> tid, assignee_id |-> aid, agent_name |-> agent, issue |-> "Net dialoga",
     action |-> "-", result |-> "-", status |-> "empty"]

\* the record of line 405
EmptyEvaluation(tid, aid, agent) ==
    [ticket_id |-> tid, assignee_id |-> aid, agent_name |-> agent, language |-> "n/a",
     tov_score |-> 0, solution_score |-> 0, errors |-> <<"Empty">>, next_action |-> "-",
     status |-> "empty"]

EmptyRecord(feature, tid, aid, agent) ==
    IF feature = "summary" THEN EmptySummary(tid, aid, agent)
    ELSE EmptyEvaluation(tid, aid, agent)

RunAI(feature, tid, dialogue, answer, now) ==
    IF feature = "summary" THEN run_summary_ai(tid, dialogue, answer)
    ELSE run_evaluation_ai(tid, dialogue, answer, now)

\* variant: the update leaves the ticket_id of the AI's answer in place
Stamp_keeps_id(tid, aid, agent) ==
    [assignee_id |-> aid, agent_name |-> agent, status |-> "generated_new"]

\* the argument of result.update (390, 409)
Stamp(tid, aid, agent) ==
    [ticket_id |-> tid, assignee_id |-> aid, agent_name |-> agent, status |-> "generated_new"]

\* variant: the cached record returned as stored
FromCache_as_stored(cached) == json_loads(cached).d

\* {**json.loads(cached), "status": "from_cache"} (379, 399)
FromCache(cached) == Update(json_loads(cached).d, [status |-> "from_cache"])

\* ------------------------------------------------------------------- state
VARIABLES
    r,          \* the module-level Redis client: "client", or "None" (50-65)
    cache,      \* the Redis database: key -> stored text, NoText when absent
    pc,         \* where each request stands in its handler
    req,        \* the locals of the handler that serves a request, with its log
    written,    \* history: key -> the dict whose dump is the key's entry, and the
                \* feature whose handler wrote it
    prior,      \* history: key -> what the last successful request returned
    arg,        \* the argument of a call of parse_ticket_data made on its own
    out         \* what that call returned

vars == <<r, cache, pc, req, written, prior, arg, out>>

\* requests are numbered in their order of arrival; each runs on a thread of
\* the server's pool, so any number of them may be in flight together
Requests == 1..MaxRequests

NoWrite == [by |-> "-", d |-> NoDict, w |-> 0]

\* variant: the client is used without the test
CacheOn_untested == TRUE

\* "if r:" (377, 391, 397, 410) and "if not r:" (415)
CacheOn == r # "None"

NoParsed == [dialogue |-> <<>>, agent_name |-> "-", assignee |-> JNull]

IdleReq ==
    [feature |-> "-", tid |-> <<>>, zdUp |-> TRUE,
     meta |-> NoExchange, aud |-> NoExchange, ai |-> "-", now |-> 0,
     nGet |-> 0, nMeta |-> 0, nAudit |-> 0, nAI |-> 0, nSet |-> 0,
     getErr |-> FALSE, setErr |-> FALSE,
     cached |-> NoText, hitWritten |-> NoWrite, prior |-> NoDict,
     parsed |-> NoParsed, result |-> NoDict, scanned |-> <<>>,
     outcome |-> "-", detail |-> "-", ret |-> NoDict]

\* no call of the parser on its own is under way
NoData == [ticket |-> "-", users |-> "-", audits |-> <<>>]

NoOut == [done |-> FALSE, dialogue |-> <<>>, agent_name |-> "-", assignee |-> JNull]

\* module initialisation (50-65): r is the client when ping() answered, None
\* otherwise; the database starts empty
Init ==
    /\ r \in {"client", "None"}
    /\ cache = [k \in Keys |-> NoText]
    /\ pc = [w \in Requests |-> "idle"]
    /\ req = [w \in Requests |-> IdleReq]
    /\ written = [k \in Keys |-> NoWrite]
    /\ prior = [k \in Keys |-> NoDict]
    /\ arg = NoData
    /\ out = NoOut

\* request w arrives next
Arrives(w) == pc[w] = "idle" /\ \A v \in Requests : v < w => pc[v] # "idle"

\* the handler returns ret
Return(w, rq, ret) ==
    /\ req' = [req EXCEPT ![w] = [rq EXCEPT !.outcome = "ok", !.ret = ret]]
    /\ pc' = [pc EXCEPT ![w] = "done"]
    /\ prior' = [prior EXCEPT ![KeyOf(rq.feature, rq.tid)] = ret]

\* the handler raises
Raise(w, rq, outcome, detail) ==
    /\ req' = [req EXCEPT ![w] = [rq EXCEPT !.outcome = outcome, !.detail = detail]]
    /\ pc' = [pc EXCEPT ![w] = "done"]
    /\ UNCHANGED prior

\* the handler goes on to its next call
Goto(w, rq, label) ==
    /\ req' = [req EXCEPT ![w] = rq]
    /\ pc' = [pc EXCEPT ![w] = label]
    /\ UNCHANGED prior

\* 376-379, 396-399: the request arrives and the cache is consulted; with a
\* client, r.get raises (ConnectionError) when the server cannot be reached
Lookup(w, feature) ==
    /\ Arrives(w)
    /\ UNCHANGED <<r, cache, written, arg, out>>
    /\ \E tid \in TicketIds, zdUp \in BOOLEAN :
        LET k == KeyOf(feature, tid)
            rq == [IdleReq EXCEPT !.feature = feature, !.tid = tid, !.zdUp = zdUp,
                                  !.prior = prior[k]]
        IN IF ~CacheOn THEN Goto(w, rq, "fetch_ticket")
           ELSE \E fails \in BOOLEAN :
                  IF fails
                  THEN Raise(w, [rq EXCEPT !.nGet = 1, !.getErr = TRUE], "fault", "ConnectionError")
                  ELSE LET cached == cache[k]
                           got == [rq EXCEPT !.nGet = 1, !.cached = cached,
                                             !.hitWritten = written[k]]
                       IN IF cached # NoText THEN Return(w, got, FromCache(cached))
                          ELSE Goto(w, got, "fetch_ticket")

\* 381, 401 with 157-169: the metadata request of get_zendesk_data
FetchTicket(w, feature) ==
    /\ pc[w] = "fetch_ticket"
    /\ req[w].feature = feature
    /\ UNCHANGED <<r, cache, written, arg, out>>
    /\ \E x \in TicketExchanges(req[w].zdUp) :
        LET res == FetchTicketData(x)
            rq == [req[w] EXCEPT !.meta = x, !.nMeta = 1]
        IN IF res.raised
           THEN Raise(w, rq, IF res.status = 404 THEN "http404" ELSE "http500", res.detail)
           ELSE Goto(w, rq, "fetch_audits")

\* 171-190, 382-387, 402-406: the audits request, the parse and the branch on
\* an empty dialogue
FetchAuditsAndParse(w, feature) ==
    /\ pc[w] = "fetch_audits"
    /\ req[w].feature = feature
    /\ UNCHANGED <<r, cache, written, arg, out>>
    /\ \E x \in AuditExchanges(req[w].zdUp) :
        LET data == ZendeskData(req[w].meta.body, FetchAudits(x))
            p == parse_ticket_data(data)
            rq == [req[w] EXCEPT !.aud = x, !.nAudit = 1, !.parsed = p]
        IN IF p.dialogue = <<>>
           THEN Return(w, rq, EmptyRecord(feature, rq.tid, p.assignee, p.agent_name))
           ELSE Goto(w, rq, "generate")

\* datetime.now(): the calls of the AI wrappers so far, a clock that ticks
\* with each call
Clock == LET RECURSIVE Sum(_)
             Sum(n) == IF n = 0 THEN 0 ELSE req[n].nAI + Sum(n - 1)
         IN Sum(MaxRequests)

\* 389-390, 408-409: the AI call and result.update, which raises
\* AttributeError when the wrapper returned something that is not a dict
Generate(w, feature) ==
    /\ pc[w] = "generate"
    /\ req[w].feature = feature
    /\ UNCHANGED <<r, cache, written, arg, out>>
    /\ \E a \in SamplesOf(feature) :
        LET p == req[w].parsed
            now == Clock + 1
            v == RunAI(feature, req[w].tid, p.dialogue, AiAnswer(feature, a), now)
            rq == [req[w] EXCEPT !.ai = a, !.nAI = 1,
                                 !.now = IF feature = "evaluate" THEN now ELSE 0]
        IN IF v.kind # "dict" THEN Raise(w, rq, "fault", "AttributeError")
           ELSE LET result == Update(v.d, Stamp(rq.tid, p.assignee, p.agent_name))
                IN IF ~CacheOn THEN Return(w, [rq EXCEPT !.result = result], result)
                   ELSE Goto(w, [rq EXCEPT !.result = result], "store")

\* variant: the write merges the record into the entry that is there
Store_merge(w, feature) ==
    /\ pc[w] = "store"
    /\ req[w].feature = feature
    /\ UNCHANGED <<r, arg, out>>
    /\ \E fails \in BOOLEAN :
        LET k == KeyOf(feature, req[w].tid)
            rq == [req[w] EXCEPT !.nSet = 1, !.setErr = fails]
            old == IF cache[k] = NoText THEN rq.result ELSE json_loads(cache[k]).d
        IN IF fails
           THEN /\ Raise(w, rq, "fault", "ConnectionError")
                /\ UNCHANGED <<cache, written>>
           ELSE /\ cache' = [cache EXCEPT ![k] = json_dumps(Update(old, rq.result))]
                /\ written' = [written EXCEPT ![k] = [by |-> feature, d |-> rq.result,
                                                          w |-> w]]
                /\ Return(w, rq, rq.result)

\* 391-392, 410-411: r.set and the return; r.set raises when the server
\* cannot be reached
Store(w, feature) ==
    /\ pc[w] = "store"
    /\ req[w].feature = feature
    /\ UNCHANGED <<r, arg, out>>
    /\ \E fails \in BOOLEAN :
        LET k == KeyOf(feature, req[w].tid)
            rq == [req[w] EXCEPT !.nSet = 1, !.setErr = fails]
        IN IF fails
           THEN /\ Raise(w, rq, "fault", "ConnectionError")
                /\ UNCHANGED <<cache, written>>
           ELSE /\ cache' = [cache EXCEPT ![k] = json_dumps(rq.result)]
                /\ written' = [written EXCEPT ![k] = [by |-> feature, d |-> rq.result,
                                                          w |-> w]]
                /\ Return(w, rq, rq.result)

Handler(w, feature) ==
    \/ Lookup(w, feature)
    \/ FetchTicket(w, feature)
    \/ FetchAuditsAndParse(w, feature)
    \/ Generate(w, feature)
    \/ Store(w, feature)

\* POST /summary (374-392)
get_summary(w) == Handler(w, "summary")

\* POST /evaluate (394-411)
evaluate_ticket(w) == Handler(w, "evaluate")

\* variant: the threshold one too low
Flagged_below_3(d) ==
    \/ Get(d, "tov_score", 5) < 3
    \/ Get(d, "solution_score", 5) < 3
    \/ Get(d, "errors", <<>>) # <<>>

\* the test of line 421
Flagged(d) ==
    \/ Get(d, "tov_score", 5) < 4
    \/ Get(d, "solution_score", 5) < 4
    \/ Get(d, "errors", <<>>) # <<>>

\* the sequences that list each element of S once: an enumeration order
Orders(S) ==
    {o \in [1..Cardinality(S) -> S] : \A i, j \in 1..Cardinality(S) : o[i] = o[j] => i = j}

\* GET /analytics/errors (413-423); scan_iter enumerates in the server's
\* order and raises when the server cannot be reached
get_errors(w) ==
    /\ Arrives(w)
    /\ UNCHANGED <<r, cache, written, prior, arg, out>>
    /\ pc' = [pc EXCEPT ![w] = "done"]
    /\ LET rq == [IdleReq EXCEPT !.feature = "errors"]
       IN IF ~CacheOn
          THEN req' = [req EXCEPT ![w] = [rq EXCEPT !.outcome = "ok",
                                                    !.ret = [error |-> "No Redis"]]]
          ELSE \E fails \in BOOLEAN :
                 IF fails
                 THEN req' = [req EXCEPT ![w] = [rq EXCEPT !.outcome = "fault",
                                                           !.detail = "ConnectionError",
                                                           !.getErr = TRUE]]
                 ELSE \E o \in Orders({k \in DOMAIN cache :
                                           StartsWith(k, S_qa) /\ cache[k] # NoText}) :
                        LET vals == [i \in DOMAIN o |-> json_loads(cache[o[i]]).d]
                            rows == SelectSeq(vals, Flagged)
                        IN req' = [req EXCEPT ![w] =
                                     [rq EXCEPT !.outcome = "ok", !.scanned = vals,
                                                !.ret = [count |-> Len(rows), data |-> rows]]]

\* the Redis server drops an entry (maxmemory policy, an operator's DEL)
Evict(k) ==
    /\ r = "client"
    /\ cache[k] # NoText
    /\ cache' = [cache EXCEPT ![k] = NoText]
    /\ written' = [written EXCEPT ![k] = NoWrite]
    /\ prior' = [prior EXCEPT ![k] = NoDict]
    /\ UNCHANGED <<r, pc, req, arg, out>>

Next ==
    \/ \E w \in Requests : get_summary(w)
    \/ \E w \in Requests : evaluate_ticket(w)
    \/ \E w \in Requests : get_errors(w)
    \/ \E k \in Keys : Evict(k)

Spec == Init /\ [][Next]_vars

\* ------------------------------------------- the scan over a filled cache
\* get_errors reads whatever earlier requests left in the database.  Here the
\* database starts as those requests leave it: for each of three tickets
\* nothing, or what an /evaluate request stores for one of the answers, and
\* for one ticket possibly a summary.
ScanIds == { <<"7">>, <<"8">>, <<"9">> }

ScanSamples == {"throw", "good", "partial"} \cup ScoreSamples

ScanKeys == {qa_key(t) : t \in ScanIds} \cup {summary_key(<<"7">>)}

\* what parse_ticket_data returns for the chat ticket
ScanParsed ==
    parse_ticket_data(ZendeskData("T_open", FetchAudits(Response(200, "A_chat"))))

\* the dict an /evaluate request that drew answer a passes to r.set (408-410)
StoredEvaluation(tid, a) ==
    Update(run_evaluation_ai(tid, ScanParsed.dialogue, AiAnswer("evaluate", a), 1).d,
           Stamp(tid, ScanParsed.assignee, ScanParsed.agent_name))

\* the dict a /summary request passes to r.set (389-391)
StoredSummary(tid) ==
    Update(run_summary_ai(tid, ScanParsed.dialogue, AiAnswer("summary", "good")).d,
           Stamp(tid, ScanParsed.assignee, ScanParsed.agent_name))

\* the record under key k when ticket t's evaluation drew f[t] and the
\* summary is there or not
ScanRecord(k, f, g) ==
    IF k = summary_key(<<"7">>)
    THEN IF g THEN [by |-> "summary", d |-> StoredSummary(<<"7">>), w |-> 0] ELSE NoWrite
    ELSE LET t == CHOOSE t \in ScanIds : k = qa_key(t)
         IN IF f[t] = "none" THEN NoWrite
            ELSE [by |-> "evaluate", d |-> StoredEvaluation(t, f[t]), w |-> 0]

InitScan ==
    /\ r = "client"
    /\ \E f \in [ScanIds -> ScanSamples \cup {"none"}], g \in BOOLEAN :
         /\ written = [k \in ScanKeys |-> ScanRecord(k, f, g)]
         /\ cache = [k \in ScanKeys |->
                       IF ScanRecord(k, f, g) = NoWrite THEN NoText
                       ELSE json_dumps(ScanRecord(k, f, g).d)]
    /\ pc = [w \in Requests |-> "idle"]
    /\ req = [w \in Requests |-> IdleReq]
    /\ prior = [k \in ScanKeys |-> NoDict]
    /\ arg = NoData
    /\ out = NoOut

NextScan == \E w \in Requests : get_errors(w)

SpecScan == InitScan /\ [][NextScan]_vars

\* --------------------------------------------- the parser called on its own
\* parse_ticket_data is a function of the dict get_zendesk_data returns.  Here
\* it is applied to audit trails put together from sample events: history
\* items of each kind the loop of 241-256 tells apart, comments of each kind
\* 259-266 tells apart, and assignment changes.
MaxEvents == 2

HistoryItem(name) ==
    CASE name = "client" ->
           [type |-> "ChatMessage", actor_type |-> "end-user", name |-> "Eve",
            message |-> <<"h", "i">>]
      [] name = "agent" ->
           [type |-> "ChatMessage", actor_type |-> "agent", author_id |-> 42,
            message |-> <<" ", "o", "k", " ">>]
      [] name = "menu" ->
           [type |-> "ChatMessage", actor_type |-> "agent",
            message |-> <<"M","a","i","n"," ","M","e","n","u">>]
      [] name = "bot" ->
           [type |-> "ChatMessage", actor_type |-> "system", name |-> "Bot",
            message |-> <<"y", "o">>]
      [] name = "anon" ->
           [type |-> "ChatMessage", message |-> <<"h", "m">>]
      [] name = "blank" ->
           [type |-> "ChatMessage", actor_type |-> "end-user", message |-> <<" ", " ">>]
      [] OTHER ->
           [type |-> "ChatJoin", actor_type |-> "agent"]

\* the histories of the sample chat events, as the names of their items
Histories ==
    { <<"client">>, <<"agent">>, <<"client", "agent">>, <<"agent", "client">>,
      <<"menu">>, <<"client", "bot">>, <<"anon">>, <<"blank", "agent">>,
      <<"join", "client">> }

History(names) == [i \in DOMAIN names |-> HistoryItem(names[i])]

\* a sample event is named by a kind and, for a chat, its history
EventNames ==
    {<<"chat", h>> : h \in Histories}
    \cup { <<"chat_top", <<"client", "agent">> >> }
    \cup {<<c, <<>> >> : c \in {"c_note", "c_menu", "c_blank", "c_private",
                                 "a_7", "a_42", "a_none", "create"}}

Event(e) ==
    CASE e[1] = "chat" -> [type |-> "ChatStartedEvent", value |-> [history |-> History(e[2])]]
      [] e[1] = "chat_top" -> [type |-> "ChatStartedEvent", history |-> History(e[2])]
      [] e[1] = "c_note" ->
           [type |-> "Comment", public |-> TRUE, body |-> <<"n", "o", "t", "e">>,
            author_id |-> 42]
      [] e[1] = "c_menu" ->
           [type |-> "Comment", public |-> TRUE,
            plain_body |-> <<"M","a","i","n"," ","M","e","n","u">>]
      [] e[1] = "c_blank" ->
           [type |-> "Comment", public |-> TRUE, body |-> <<" ", " ">>, author_id |-> 7]
      [] e[1] = "c_private" ->
           [type |-> "Comment", public |-> FALSE, body |-> <<"n", "o", "t", "e">>,
            author_id |-> 42]
      [] e[1] = "a_7" ->
           [type |-> "Change", field_name |-> "assignee_id", value |-> JStr(<<"7">>)]
      [] e[1] = "a_42" ->
           [type |-> "Change", field_name |-> "assignee", value |-> JInt(42)]
      [] e[1] = "a_none" ->
           [type |-> "Change", field_name |-> "assignee_id", value |-> JNull]
      [] OTHER ->
           [type |-> "Create", field_name |-> "status", value |-> JStr(<<"o", "p", "e", "n">>)]

\* the audits that hold the events evs in order, a new audit starting after
\* each position of cuts; cur holds the events of the audit being filled
RECURSIVE Group(_, _, _, _)
Group(evs, cuts, j, cur) ==
    IF j > Len(evs) THEN (IF cur = <<>> THEN <<>> ELSE << [id |-> j, events |-> cur] >>)
    ELSE IF (j - 1) \in cuts
         THEN << [id |-> j, events |-> cur] >> \o Group(evs, cuts, j + 1, <<evs[j]>>)
         ELSE Group(evs, cuts, j + 1, Append(cur, evs[j]))

AuditTrail(names, cuts) == Group([i \in DOMAIN names |-> Event(names[i])], cuts, 1, <<>>)

ParseTickets == {"T_open", "T_assigned"}

InitParse ==
    /\ \E t \in ParseTickets, n \in 0..MaxEvents :
         \E names \in [1..n -> EventNames], cuts \in SUBSET (1..(n - 1)) :
            arg = ZendeskData(t, AuditTrail(names, cuts))
    /\ out = NoOut
    /\ r = "client"
    /\ cache = [k \in Keys |-> NoText]
    /\ pc = [w \in Requests |-> "idle"]
    /\ req = [w \in Requests |-> IdleReq]
    /\ written = [k \in Keys |-> NoWrite]
    /\ prior = [k \in Keys |-> NoDict]

\* the call of line 382 / 402
ParseCall ==
    /\ ~out.done
    /\ out' = [done |-> TRUE, dialogue |-> parse_ticket_data(arg).dialogue,
               agent_name |-> parse_ticket_data(arg).agent_name,
               assignee |-> parse_ticket_data(arg).assignee]
    /\ UNCHANGED <<r, cache, pc, req, written, prior, arg>>

NextParse == ParseCall

SpecParse == InitParse /\ [][NextParse]_vars

\* ================================================================ properties
\* a /summary or /evaluate request that has ended
Completed(w) == pc[w] = "done" /\ req[w].feature \in Features

\* the request looked its key up and the server answered
LookedUp(w) == req[w].nGet = 1 /\ ~req[w].getErr

\* the lookup found an entry
Hit(w) == LookedUp(w) /\ req[w].cached # NoText

\* the lookup found nothing, or there was no cache to look in
Missed(w) == (LookedUp(w) /\ req[w].cached = NoText) \/ req[w].nGet = 0

StatusOf(d) == Get(d, "status", PyNone)

\* d with its status replaced
Restatus(d, st) == [k \in (DOMAIN d) \cup {"status"} |-> IF k = "status" THEN st ELSE d[k]]

NoExternalCall(w) == req[w].nMeta = 0 /\ req[w].nAudit = 0 /\ req[w].nAI = 0

MetaFailed(x) == x.kind = "error" \/ x.status # 200

AuditFailed(x) == x.kind = "error" \/ x.status # 200

\* C1: with the cache enabled, a request whose lookup finds an entry under
\* its feature's key returns the record that was written there, equal in
\* every field except status, which is from_cache, and makes no metadata
\* fetch, no audit fetch, no AI call and no cache write.
C1_HitReturnsStoredRecord ==
    \A w \in Requests :
        (Completed(w) /\ r = "client" /\ Hit(w)) =>
            /\ req[w].outcome = "ok"
            /\ StatusOf(req[w].ret) = "from_cache"
            /\ DOMAIN req[w].ret = (DOMAIN req[w].hitWritten.d) \cup {"status"}
            /\ \A f \in (DOMAIN req[w].hitWritten.d) \ {"status"} :
                   req[w].ret[f] = req[w].hitWritten.d[f]
            /\ NoExternalCall(w)
            /\ req[w].nSet = 0

C1_Witness ==
    \E w \in Requests :
        /\ Completed(w) /\ r = "client" /\ Hit(w)
        /\ StatusOf(req[w].hitWritten.d) = "generated_new"
        /\ StatusOf(req[w].ret) = "from_cache"

\* the statuses of a record that is in the cache when the request ends
CachedStatus == {"generated_new", "from_cache"}

\* C2 as amended: if a request ended with its record stored in or served from
\* the cache (status generated_new with the cache enabled, or from_cache) and
\* the next request for the same ticket and feature is made while Zendesk is
\* unreachable, the cache answering and the entry not evicted since, that
\* request returns the earlier record with status from_cache and attempts no
\* fetch and no generation.
C2_IdempotentOnceCached ==
    \A w \in Requests :
        (/\ Completed(w) /\ r = "client" /\ LookedUp(w)
         /\ ~req[w].zdUp
         /\ req[w].prior # NoDict
         /\ StatusOf(req[w].prior) \in CachedStatus) =>
            /\ req[w].outcome = "ok"
            /\ req[w].ret = Restatus(req[w].prior, "from_cache")
            /\ NoExternalCall(w)
            /\ req[w].nSet = 0

C2_Witness ==
    \E w \in Requests :
        /\ Completed(w) /\ r = "client" /\ LookedUp(w)
        /\ ~req[w].zdUp
        /\ req[w].prior # NoDict
        /\ StatusOf(req[w].prior) = "generated_new"
        /\ StatusOf(req[w].ret) = "from_cache"

\* C2 as stated: after any request that completed successfully, a request
\* for the same ticket and feature made while Zendesk is unreachable (no
\* eviction in between, the cache answering if it is asked) returns the first
\* result from the cache without a fetch or a generation.
C2_Original ==
    \A w \in Requests :
        (Completed(w) /\ ~req[w].getErr /\ ~req[w].zdUp /\ req[w].prior # NoDict) =>
            /\ req[w].outcome = "ok"
            /\ req[w].ret = Restatus(req[w].prior, "from_cache")
            /\ NoExternalCall(w)

\* C3: when Zendesk answers the ticket request with 404, the request ends
\* with the not-found client error, and any other failure of the ticket
\* request ends with the generic server error.
C3_NotFoundIsDistinguished ==
    \A w \in Requests :
        (Completed(w) /\ req[w].nMeta = 1 /\ MetaFailed(req[w].meta)) =>
            IF req[w].meta.kind = "resp" /\ req[w].meta.status = 404
            THEN req[w].outcome = "http404"
            ELSE req[w].outcome = "http500"

\* C4: on a cache miss, a ticket request that succeeds followed by an audits
\* request that fails gives an empty transcript and a successful answer with
\* status empty and no AI call; a ticket request that fails ends the request
\* with an HTTP error and no audits request, no AI call and no cache write.
C4_AuditDegradesMetadataFatal ==
    \A w \in Requests :
        Completed(w) =>
            /\ (req[w].nAudit = 1 /\ AuditFailed(req[w].aud)) =>
                   /\ ~MetaFailed(req[w].meta)
                   /\ req[w].parsed.dialogue = <<>>
                   /\ req[w].outcome = "ok"
                   /\ StatusOf(req[w].ret) = "empty"
                   /\ req[w].nAI = 0
            /\ (req[w].nMeta = 1 /\ MetaFailed(req[w].meta)) =>
                   /\ req[w].outcome \in {"http404", "http500"}
                   /\ req[w].nAudit = 0
                   /\ req[w].nAI = 0
                   /\ req[w].nSet = 0

C4_Witness ==
    \E v, w \in Requests :
        /\ Completed(v) /\ req[v].nAudit = 1 /\ AuditFailed(req[v].aud)
        /\ StatusOf(req[v].ret) = "empty"
        /\ Completed(w) /\ req[w].nMeta = 1 /\ MetaFailed(req[w].meta)
        /\ req[w].outcome = "http500"

\* the record tells of the AI failure
SignalsFailure(feature, d) ==
    IF feature = "summary"
    THEN Get(d, "issue", PyNone) = "Error" /\ Get(d, "result", PyNone) \notin {PyNone, "", "-"}
    ELSE Get(d, "errors", <<>>) # <<>>

\* C5: on a cache miss with a non-empty transcript, when the generator
\* throws or returns text that is not JSON, the request still ends
\* successfully and its record signals the failure (evaluate: a non-empty
\* errors list; summary: the error text in result).
C5_AiFailureStillSucceeds ==
    \A w \in Requests :
        (Completed(w) /\ req[w].nAI = 1 /\ req[w].ai \in {"throw", "garbage"}) =>
            /\ req[w].outcome = "ok"
            /\ SignalsFailure(req[w].feature, req[w].ret)

\* the except-branch record of the feature's wrapper, stamped by the handler
IsFallback(feature, d) ==
    /\ RequiredFields(feature) \subseteq DOMAIN d
    /\ SignalsFailure(feature, d)

\* C6: when the generator's answer is JSON of the wrong shape (not an
\* object, or an object without the required fields), the fallback record
\* with the error marker is substituted and the request ends successfully.
C6_MalformedAnswerGetsFallback ==
    \A w \in Requests :
        (/\ Completed(w) /\ req[w].nAI = 1 /\ req[w].ai \in {"partial", "array"}
         /\ ~req[w].setErr) =>
            /\ req[w].outcome = "ok"
            /\ IsFallback(req[w].feature, req[w].ret)

\* C7: a cache-miss request whose fetched data gives an empty transcript
\* ends successfully with a placeholder record that has every required
\* field, carries the ticket id and is tagged status = empty; the AI
\* generator is not called.
C7_EmptyTranscriptIsSuccess ==
    \A w \in Requests :
        (Completed(w) /\ Missed(w) /\ req[w].nAudit = 1 /\ req[w].parsed.dialogue = <<>>) =>
            /\ req[w].outcome = "ok"
            /\ StatusOf(req[w].ret) = "empty"
            /\ RequiredFields(req[w].feature) \subseteq DOMAIN req[w].ret
            /\ req[w].ret["ticket_id"] = req[w].tid
            /\ req[w].nAI = 0

C7_Witness ==
    \E w \in Requests :
        /\ Completed(w) /\ Missed(w) /\ req[w].nAudit = 1
        /\ req[w].aud.kind = "resp" /\ req[w].aud.status = 200
        /\ req[w].parsed.dialogue = <<>>
        /\ StatusOf(req[w].ret) = "empty"

\* the characters ticket ids are made of here: a digit and the characters
\* of the two prefixes
IdAlphabet == {"7", "q", "a", ":", "s"}

\* every str of at most MaxIdLen characters, the empty one included
IdStrings == UNION {[1..n -> IdAlphabet] : n \in 0..MaxIdLen}

KeysNeverCollide == \A t1, t2 \in IdStrings : summary_key(t1) # qa_key(t2)

\* a step of a request of one feature leaves the other feature's entries as
\* they are
FrameAcrossFeatures ==
    /\ (\E w \in Requests : get_summary(w)) =>
           \A t \in TicketIds : cache'[qa_key(t)] = cache[qa_key(t)]
    /\ (\E w \in Requests : evaluate_ticket(w)) =>
           \A t \in TicketIds : cache'[summary_key(t)] = cache[summary_key(t)]

\* what a request gets from the cache was written by its own feature
NoForeignRecord ==
    \A w \in Requests :
        (Completed(w) /\ Hit(w)) => req[w].hitWritten.by = req[w].feature

\* C8: the summary key of a ticket id never equals the evaluation key of any
\* ticket id, the same or another; no step of a summary request changes an
\* evaluation entry and no step of an evaluate request changes a summary
\* entry; a request never returns a record written by the other feature.
C8_CrossFeatureIsolation ==
    /\ KeysNeverCollide
    /\ []NoForeignRecord
    /\ [][FrameAcrossFeatures]_vars

C8_Witness ==
    \E t \in TicketIds :
        /\ cache[summary_key(t)] # NoText /\ written[summary_key(t)].by = "summary"
        /\ cache[qa_key(t)] # NoText /\ written[qa_key(t)].by = "evaluate"

\* what the handler gives for the answers the request met when nothing is
\* looked up or stored: the outcome and the returned record
Uncached(rq) ==
    IF FetchTicketData(rq.meta).raised THEN [outcome |-> "http500", ret |-> NoDict]
    ELSE LET p == parse_ticket_data(ZendeskData(rq.meta.body, FetchAudits(rq.aud)))
         IN IF p.dialogue = <<>>
            THEN [outcome |-> "ok",
                  ret |-> EmptyRecord(rq.feature, rq.tid, p.assignee, p.agent_name)]
            ELSE LET v == RunAI(rq.feature, rq.tid, p.dialogue, AiAnswer(rq.feature, rq.ai),
                                rq.now)
                 IN IF v.kind # "dict" THEN [outcome |-> "fault", ret |-> NoDict]
                    ELSE [outcome |-> "ok",
                          ret |-> Update(v.d, Stamp(rq.tid, p.assignee, p.agent_name))]

EndsAsUncached(w) ==
    /\ req[w].outcome = Uncached(req[w]).outcome
    /\ req[w].ret = Uncached(req[w]).ret

\* C9: with the cache disabled (r is None) a summary or evaluate request
\* reads and writes no cache entry, goes on to the fetch like a miss, ends
\* with the outcome and record that a miss with the cache enabled ends with
\* for the same answers of Zendesk and the generator, and never ends with a
\* cache error; the analytics scan returns the "No Redis" result.
C9_DegradedMode ==
    /\ \A w \in Requests :
           (Completed(w) /\ r = "None") =>
               /\ req[w].nGet = 0 /\ req[w].nSet = 0
               /\ req[w].nMeta = 1
               /\ req[w].detail # "ConnectionError"
               /\ EndsAsUncached(w)
    /\ \A w \in Requests :
           (Completed(w) /\ r = "client" /\ LookedUp(w) /\ req[w].cached = NoText
                /\ ~req[w].setErr) => EndsAsUncached(w)
    /\ \A w \in Requests :
           (pc[w] = "done" /\ req[w].feature = "errors" /\ r = "None") =>
               req[w].outcome = "ok" /\ req[w].ret = [error |-> "No Redis"]
    /\ r = "None" => \A k \in Keys : cache[k] = NoText

C9_Witness ==
    \E v, w \in Requests :
        /\ r = "None"
        /\ Completed(v) /\ req[v].nAI = 1 /\ req[v].outcome = "ok"
        /\ StatusOf(req[v].ret) = "generated_new"
        /\ pc[w] = "done" /\ req[w].feature = "errors" /\ req[w].outcome = "ok"

\* C10: when the Redis server cannot be reached after a successful start, a
\* failing get counts as a miss and a failing set as a no-op, and the request
\* ends with the record it would give without the cache.
C10_OutageIsNotEscalated ==
    \A w \in Requests :
        (Completed(w) /\ (req[w].getErr \/ req[w].setErr)) =>
            /\ req[w].outcome # "fault"
            /\ req[w].nMeta = 1
            /\ EndsAsUncached(w)

\* ---------------------------------------------------------------- C11
\* the records the claim names: at least one entry in errors, or a score
\* below 4
AtRisk(d) ==
    \/ ("errors" \in DOMAIN d /\ Len(d.errors) >= 1)
    \/ ("tov_score" \in DOMAIN d /\ d.tov_score < 4)
    \/ ("solution_score" \in DOMAIN d /\ d.solution_score < 4)

\* the evaluation records in the cache
StoredEvaluations ==
    {json_loads(cache[qa_key(t)]).d : t \in {t \in ScanIds : cache[qa_key(t)] # NoText}}

\* the scan of request w was answered
Scanned(w) ==
    /\ pc[w] = "done"
    /\ req[w].feature = "errors"
    /\ req[w].outcome = "ok"
    /\ "data" \in DOMAIN req[w].ret

\* C11: a scan that the cache answers returns exactly the evaluation records
\* in the cache that have an entry in errors or a score below 4, each once, and
\* no summary record; count is the number of records returned; when no record
\* qualifies the list is empty and count is 0.
C11_ScanReturnsTheFlagged ==
    \A w \in Requests :
        Scanned(w) =>
            LET rows == req[w].ret.data
                want == {d \in StoredEvaluations : AtRisk(d)}
            IN /\ {rows[i] : i \in DOMAIN rows} = want
               /\ Len(rows) = Cardinality(want)
               /\ req[w].ret.count = Len(rows)
               /\ \A i \in DOMAIN rows : rows[i] # StoredSummary(<<"7">>)
               /\ (want = {} => rows = <<>> /\ req[w].ret.count = 0)

\* three evaluations and a summary are cached, and the scan returned the two
\* evaluations at risk
C11_Witness ==
    \E w \in Requests :
        /\ Scanned(w)
        /\ Cardinality(StoredEvaluations) = 3
        /\ cache[summary_key(<<"7">>)] # NoText
        /\ req[w].ret.count = 2
        /\ \E i \in DOMAIN req[w].ret.data : req[w].ret.data[i].tov_score = 3

\* ---------------------------------------------------------------- C12
\* the events of a trail in the order of the trail
RECURSIVE AllEvents(_)
AllEvents(audits) ==
    IF audits = <<>> THEN <<>> ELSE Head(audits).events \o AllEvents(Tail(audits))

\* the positions of the assignment changes with a non-empty value
Assignments(evs) ==
    {i \in DOMAIN evs : /\ Get(evs[i], "field_name", PyNone) \in {"assignee", "assignee_id"}
                         /\ Truthy(Get(evs[i], "value", JNull))}

Max(S) == CHOOSE x \in S : \A y \in S : y <= x

NoHeaderAssignee ==
    /\ ~Truthy(Get(arg.ticket, "assignee", JNull))
    /\ ~Truthy(Get(arg.ticket, "assignee_id", JNull))

\* C12: when the ticket has no top-level assignee and its trail holds two
\* assignment changes with a non-empty value, in two audits or in one, the
\* resolver returns the value of the later one.
C12_LatestAssignmentWins ==
    LET evs == AllEvents(arg.audits)
    IN (out.done /\ NoHeaderAssignee /\ Cardinality(Assignments(evs)) >= 2)
          => out.assignee = evs[Max(Assignments(evs))].value

\* the same when the two changes are in different audits
C12_AcrossAudits ==
    (out.done /\ NoHeaderAssignee /\ Len(arg.audits) >= 2
       /\ \A i \in DOMAIN arg.audits : Cardinality(Assignments(arg.audits[i].events)) = 1)
          => out.assignee = AllEvents(arg.audits)[Max(Assignments(AllEvents(arg.audits)))].value

\* ---------------------------------------------------------------- C13
\* the lines of a dialogue: the pieces between the "\n" of the join
RECURSIVE SplitLines(_, _)
SplitLines(rest, cur) ==
    IF rest = <<>> THEN <<cur>>
    ELSE IF Head(rest) = "\n" THEN <<cur>> \o SplitLines(Tail(rest), <<>>)
    ELSE SplitLines(Tail(rest), Append(cur, Head(rest)))

Lines(dialogue) == IF dialogue = <<>> THEN <<>> ELSE SplitLines(dialogue, <<>>)

\* a line read back as an utterance: "ROLE (name): text" comes from a chat
\* item, "name: text" from a comment
Utterance(line) ==
    IF Len(line) >= 5 /\ line[2] = " ("
    THEN [from |-> "chat", role |-> line[1], name |-> line[3],
          text |-> SubSeq(line, 6, Len(line))]
    ELSE [from |-> "comment", role |-> "-", name |-> line[1],
          text |-> SubSeq(line, 3, Len(line))]

\* the utterances of the transcript the call returned
Transcript == [i \in DOMAIN Lines(out.dialogue) |-> Utterance(Lines(out.dialogue)[i])]

Ignored(text) == \E i \in DOMAIN IGNORE : Contains(text, IGNORE[i])

\* C13: no utterance of the transcript, from a chat item or from a comment,
\* has a text that is empty after trimming or contains an ignore-listed phrase.
C13_NoEmptyOrIgnoredText ==
    out.done =>
        \A i \in DOMAIN Transcript :
            Strip(Transcript[i].text) # <<>> /\ ~Ignored(Transcript[i].text)

\* ---------------------------------------------------------------- C14
\* C14: when the transcript holds an utterance from a chat item it holds none
\* from a comment.
C14_ChatTakesPrecedence ==
    (out.done /\ \E i \in DOMAIN Transcript : Transcript[i].from = "chat")
        => \A i \in DOMAIN Transcript : Transcript[i].from # "comment"

\* ---------------------------------------------------------------- C15
\* the history an event carries, in the one place where it carries it
Carried(ev) ==
    IF "value" \in DOMAIN ev THEN ev.value.history
    ELSE IF "history" \in DOMAIN ev THEN ev.history ELSE <<>>

\* the history items of a run of events, in order
RECURSIVE AllItems(_)
AllItems(evs) ==
    IF evs = <<>> THEN <<>> ELSE Carried(Head(evs)) \o AllItems(Tail(evs))

ValidItem(h) ==
    /\ Get(h, "type", PyNone) = "ChatMessage"
    /\ Get(h, "actor_type", PyNone) \in {"end-user", "agent"}
    /\ "message" \in DOMAIN h
    /\ Strip(h.message) # <<>>
    /\ ~Ignored(h.message)

\* the trail holds chat events only, and valid items only
OnlyValidChats ==
    /\ \A i \in DOMAIN AllEvents(arg.audits) :
           AllEvents(arg.audits)[i].type = "ChatStartedEvent"
    /\ \A i \in DOMAIN AllItems(AllEvents(arg.audits)) :
           ValidItem(AllItems(AllEvents(arg.audits))[i])

\* C15: for a trail of chat events whose items are all valid, the transcript
\* has one utterance per item, in the order of the items (audits, then
\* events, then items), tagged CLIENT for end-user and AGENT for agent, with
\* the item's trimmed text.
C15_OneUtterancePerValidItem ==
    (out.done /\ OnlyValidChats) =>
        LET items == AllItems(AllEvents(arg.audits))
        IN /\ Len(Transcript) = Len(items)
           /\ \A i \in DOMAIN items :
                 /\ Transcript[i].from = "chat"
                 /\ Transcript[i].role =
                        (IF items[i].actor_type = "end-user" THEN "CLIENT" ELSE "AGENT")
                 /\ Transcript[i].text = Strip(items[i].message)

\* two chat events in two audits, one with its history at the top level, four
\* items, parsed
C15_Witness ==
    /\ out.done
    /\ OnlyValidChats
    /\ Len(arg.audits) = 2
    /\ Len(AllItems(AllEvents(arg.audits))) = 4
    /\ \E i \in DOMAIN AllEvents(arg.audits) : "history" \in DOMAIN AllEvents(arg.audits)[i]
    /\ Len(Transcript) = 4

\* ---------------------------------------------------------------- C18
\* C18: a ChatMessage item whose actor role is neither end-user nor agent, or
\* is absent, yields no utterance.
C18_OtherRolesAreSkipped ==
    out.done =>
        \A k \in DOMAIN AllItems(AllEvents(arg.audits)) :
            LET h == AllItems(AllEvents(arg.audits))[k]
            IN (/\ Get(h, "type", PyNone) = "ChatMessage"
                /\ Get(h, "actor_type", PyNone) \notin {"end-user", "agent"})
                  => ~ \E i \in DOMAIN Transcript :
                         /\ Transcript[i].from = "chat"
                         /\ Transcript[i].text = Strip(h.message)

\* ---------------------------------------------------------------- C16
InRange(d) ==
    /\ ("tov_score" \in DOMAIN d => d.tov_score \in 0..5)
    /\ ("solution_score" \in DOMAIN d => d.solution_score \in 0..5)

\* C16: every evaluation record that /evaluate returns, that is in the cache,
\* or that the scan returns has both scores within 0..5, whatever the AI sent.
C16_ScoresWithinRange ==
    /\ \A w \in Requests :
          (Completed(w) /\ req[w].feature = "evaluate" /\ req[w].outcome = "ok")
              => InRange(req[w].ret)
    /\ \A t \in TicketIds :
          cache[qa_key(t)] # NoText => InRange(json_loads(cache[qa_key(t)]).d)
    /\ \A w \in Requests :
          Scanned(w) => \A i \in DOMAIN req[w].ret.data : InRange(req[w].ret.data[i])

\* ---------------------------------------------------------------- C17
\* the request went as far as r.set and the server took the write
Wrote(w) == Completed(w) /\ req[w].nSet = 1 /\ ~req[w].setErr

\* v and w asked for the same feature and ticket, found nothing cached, and
\* each generated and wrote its record
Raced(v, w) ==
    /\ v # w
    /\ req[v].feature = req[w].feature
    /\ req[v].tid = req[w].tid
    /\ LookedUp(v) /\ req[v].cached = NoText /\ Wrote(v)
    /\ LookedUp(w) /\ req[w].cached = NoText /\ Wrote(w)

\* C17: two requests for the same feature and the same uncached ticket never
\* hold each other up (a request in flight can always take its next step),
\* both end successfully, and as long as no one else writes or evicts the
\* key, its entry is the whole record of the request whose set ran last:
\* the dump of that record, which loads back to it.
C17_LastWriteWins ==
    /\ \A w \in Requests :
          pc[w] \notin {"idle", "done"} => ENABLED (get_summary(w) \/ evaluate_ticket(w))
    /\ \A v, w \in Requests :
          Raced(v, w) =>
              LET k == KeyOf(req[w].feature, req[w].tid)
              IN /\ req[v].outcome = "ok" /\ req[w].outcome = "ok"
                 /\ written[k].w \in {v, w} =>
                        /\ cache[k] = json_dumps(req[written[k].w].result)
                        /\ json_loads(cache[k]).d = req[written[k].w].result

\* the request that arrived first wrote last, over a different record of the
\* request that arrived second: the two were in flight together
C17_Witness ==
    \E v, w \in Requests :
        /\ v < w
        /\ Raced(v, w)
        /\ written[KeyOf(req[w].feature, req[w].tid)].w = v
        /\ req[v].result # req[w].result
        /\ DOMAIN req[v].result # DOMAIN req[w].result

\* ---------------------------------------------------------------- C19
\* C19: every entry under summary:<t> or qa:<t> is a record with ticket_id t,
\* whatever ticket_id the AI sent, and status generated_new; a request that
\* ends with a failure or with status empty or from_cache has written
\* nothing; and the only steps that put a record in the cache are the ends of
\* requests that return that record with status generated_new.
C19_CacheHoldsStampedRecords ==
    /\ [](\A t \in TicketIds, f \in Features :
            cache[KeyOf(f, t)] # NoText =>
                /\ json_loads(cache[KeyOf(f, t)]).kind = "dict"
                /\ Get(json_loads(cache[KeyOf(f, t)]).d, "ticket_id", <<>>) = t
                /\ StatusOf(json_loads(cache[KeyOf(f, t)]).d) = "generated_new")
    /\ [](\A w \in Requests :
            (Completed(w) /\ (req[w].outcome # "ok"
                               \/ StatusOf(req[w].ret) \in {"empty", "from_cache"}))
                => ~Wrote(w))
    /\ [][\A k \in Keys :
            (cache'[k] # cache[k] /\ cache'[k] # NoText) =>
                \E w \in Requests :
                    /\ pc[w] = "store" /\ pc'[w] = "done"
                    /\ req'[w].outcome = "ok"
                    /\ StatusOf(req'[w].ret) = "generated_new"
                    /\ cache'[k] = json_dumps(req'[w].ret)]_vars

\* the AI sent ticket_id 9 for ticket 7 and the record is cached
C19_Witness ==
    \E w \in Requests :
        /\ Wrote(w)
        /\ req[w].ai = "good"
        /\ written[KeyOf(req[w].feature, req[w].tid)].w = w
        /\ cache[KeyOf(req[w].feature, req[w].tid)] # NoText
        /\ req[w].tid # <<"9">>

\* ---------------------------------------------------------------- C20
\* the generator threw or its answer was not JSON
AiFailed(w) == req[w].nAI = 1 /\ req[w].ai \in {"throw", "garbage"}

\* the except-branch record of run_evaluation_ai
ZeroScored(d) ==
    /\ Get(d, "tov_score", 5) = 0
    /\ Get(d, "solution_score", 5) = 0
    /\ Get(d, "errors", <<>>) # <<>>

\* C20: with the cache enabled and answering, a request whose generator fails
\* ends with the fallback record, status generated_new, stored under its key
\* (for evaluate: scores 0 and a non-empty errors list); a later request that
\* finds that entry returns the same record as from_cache without a
\* generator call; and a scan that reads such an evaluation returns it.
C20_FallbackIsSticky ==
    /\ \A w \in Requests :
          (Completed(w) /\ AiFailed(w) /\ CacheOn /\ ~req[w].setErr) =>
              LET k == KeyOf(req[w].feature, req[w].tid)
              IN /\ Wrote(w)
                 /\ req[w].outcome = "ok"
                 /\ IsFallback(req[w].feature, req[w].ret)
                 /\ StatusOf(req[w].ret) = "generated_new"
                 /\ req[w].feature = "evaluate" => ZeroScored(req[w].ret)
                 /\ written[k].w = w => cache[k] = json_dumps(req[w].ret)
    /\ \A v \in Requests :
          (Completed(v) /\ Hit(v) /\ req[v].hitWritten.w \in Requests) =>
              (AiFailed(req[v].hitWritten.w) =>
                  /\ req[v].outcome = "ok"
                  /\ req[v].nAI = 0
                  /\ req[v].ret = Restatus(req[req[v].hitWritten.w].ret, "from_cache"))
    /\ \A s \in Requests :
          Scanned(s) =>
              \A i \in DOMAIN req[s].scanned :
                  (Get(req[s].scanned[i], "language", PyNone) = "err"
                   /\ StatusOf(req[s].scanned[i]) = "generated_new")
                      => \E j \in DOMAIN req[s].ret.data :
                             /\ req[s].ret.data[j] = req[s].scanned[i]
                             /\ ZeroScored(req[s].ret.data[j])

\* a request stored the fallback and the next one was served it from the cache
C20_Witness ==
    \E w, v \in Requests :
        /\ Completed(w) /\ AiFailed(w) /\ Wrote(w)
        /\ Completed(v) /\ Hit(v) /\ req[v].hitWritten.w = w
        /\ StatusOf(req[v].ret) = "from_cache"

\* an evaluation stored the fallback and a scan returned it
C20_ScanWitness ==
    \E w, s \in Requests :
        /\ Completed(w) /\ AiFailed(w) /\ Wrote(w) /\ req[w].feature = "evaluate"
        /\ Scanned(s)
        /\ \E j \in DOMAIN req[s].ret.data : req[s].ret.data[j] = req[w].ret

====
